---- MODULE Spec2Model ----
(***************************************************************************)
(* A model of utils/image_helpers.py: the Bayer splitter/reconstructor,    *)
(* the padding wrapper, the window shifter (a generator), the mean filter  *)
(* and the fixed-point YCbCr -> RGB converter.                             *)
(*                                                                         *)
(* An ndarray is a record [dtype, shape, data]: shape is a tuple of axis   *)
(* lengths and data maps every 0-based index tuple to an element.          *)
(* A call's outcome is a record [ok, val, err]: a returned value or the    *)
(* name of the exception raised.                                           *)
(***************************************************************************)
EXTENDS Integers, Sequences, FiniteSets, TLC

VARIABLES fn, args, ret,
          array, pads, padded_array, window_size, gens

vars == <<fn, args, ret, array, pads, padded_array, window_size, gens>>
pureVars == <<fn, args, ret>>
shiftVars == <<array, pads, padded_array, window_size, gens>>

----------------------------------------------------------------------------
(* Bounds of the input sets.                                               *)

MaxBayerDim == 4
MaxDim == 2
MaxChan == 2
MaxBase == 1
MaxMargin == 1
MaxWin == 3
MaxFilter == 5
ColorLevels == 5

----------------------------------------------------------------------------
(* Values, outcomes, element types.                                        *)

Ok(v) == [ok |-> TRUE, val |-> v, err |-> "none"]
Raise(e) == [ok |-> FALSE, val |-> <<>>, err |-> e]

Min(a, b) == IF a < b THEN a ELSE b
Max(a, b) == IF a > b THEN a ELSE b

\* Fixed-width integer arithmetic: the value an element of type dt holds
\* after an operation whose exact result is x.  The model's integers are
\* themselves 32 bits wide, so an int32 result that is representable is
\* kept as it is (the sums of the colour converter stay below 2^18).
Wrap(dt, x) ==
    CASE dt = "uint8" -> x % 256
      [] dt = "int16" -> ((x + 32768) % 65536) - 32768
      [] OTHER -> x

\* float -> integer element conversion of the exact quotient s / d (d > 0):
\* truncation toward zero.
TruncDiv(s, d) == IF s >= 0 THEN s \div d ELSE -((-s) \div d)

RECURSIVE Indices(_)
Indices(shape) ==
    IF shape = <<>> THEN {<<>>}
    ELSE {<<i>> \o t : i \in 0..(Head(shape) - 1), t \in Indices(Tail(shape))}

RECURSIVE Lin(_, _)
\* Row-major position of index tuple idx in an array of the given shape.
Lin(idx, shape) ==
    IF idx = <<>> THEN 0
    ELSE Lin(SubSeq(idx, 1, Len(idx) - 1), SubSeq(shape, 1, Len(shape) - 1))
             * shape[Len(shape)] + idx[Len(idx)]

\* An ndarray of element type dt and the given shape holding data, a
\* function on the shape's index tuples.
NDArray(dt, shape, data) == [dtype |-> dt, shape |-> shape, data |-> data]

\* Input arrays: element at row-major position k is base + step * k (as dt).
MkArray(dt, shape, base, step) ==
    LET f(idx) == Wrap(dt, base + step * Lin(idx, shape))
    IN  NDArray(dt, shape, [i \in Indices(shape) |-> f(i)])

Trailing(shape) == SubSeq(shape, 3, Len(shape))

----------------------------------------------------------------------------
(* Python slicing a[start:stop:step] on an axis of length n (step > 0):    *)
(* the sequence of source positions selected.                              *)

SliceBound(b, n) == IF b < 0 THEN Max(b + n, 0) ELSE Min(b, n)

\* The count of selected positions rounded down instead of up.
PySlice_floor(start, stop, step, n) ==
    LET lo == SliceBound(start, n)
        hi == SliceBound(stop, n)
        cnt == IF hi > lo THEN (hi - lo) \div step ELSE 0
    IN  [k \in 1..cnt |-> lo + (k - 1) * step]

PySlice(start, stop, step, n) ==
    LET lo == SliceBound(start, n)
        hi == SliceBound(stop, n)
        cnt == IF hi > lo THEN (hi - lo + step - 1) \div step ELSE 0
    IN  [k \in 1..cnt |-> lo + (k - 1) * step]

\* a[rows, cols, ...]: basic indexing of the two leading axes.
View(a, rows, cols) ==
    LET shape == <<Len(rows), Len(cols)>> \o Trailing(a.shape)
        f(idx) == a.data[<<rows[idx[1] + 1], cols[idx[2] + 1]>> \o Trailing(idx)]
    IN  NDArray(a.dtype, shape, [i \in Indices(shape) |-> f(i)])

----------------------------------------------------------------------------
(* get_bayer_indices                                                       *)

LowerChar(c) ==
    CASE c = "R" -> "r" [] c = "G" -> "g" [] c = "B" -> "b" [] OTHER -> c

Lower(s) == [k \in 1..Len(s) |-> LowerChar(s[k])]

\* (x_start_idx, y_start_idx) for R, Gr, Gb, B; KeyError for an unknown key.
get_bayer_indices(pattern) ==
    LET key == Lower(pattern)
    IN  CASE key = <<"g", "b", "r", "g">> ->
                 Ok(<< <<0, 1>>, <<1, 1>>, <<0, 0>>, <<1, 0>> >>)
          [] key = <<"r", "g", "g", "b">> ->
                 Ok(<< <<0, 0>>, <<1, 0>>, <<0, 1>>, <<1, 1>> >>)
          [] key = <<"b", "g", "g", "r">> ->
                 Ok(<< <<1, 1>>, <<0, 1>>, <<1, 0>>, <<0, 0>> >>)
          [] key = <<"g", "r", "b", "g">> ->
                 Ok(<< <<1, 0>>, <<0, 0>>, <<1, 1>>, <<0, 1>> >>)
          [] OTHER -> Raise("KeyError")

----------------------------------------------------------------------------
(* split_bayer                                                             *)

\* The offsets read as (y, x) instead of (x, y).
StridedSub_swapped(bayer_array, idx) ==
    LET x0 == idx[2]
        y0 == idx[1]
        H == bayer_array.shape[1]
        W == bayer_array.shape[2]
    IN  View(bayer_array, PySlice(y0, H, 2, H), PySlice(x0, W, 2, W))

\* bayer_array[y0::2, x0::2]
StridedSub(bayer_array, idx) ==
    LET x0 == idx[1]
        y0 == idx[2]
        H == bayer_array.shape[1]
        W == bayer_array.shape[2]
    IN  View(bayer_array, PySlice(y0, H, 2, H), PySlice(x0, W, 2, W))

split_bayer(bayer_array, bayer_pattern) ==
    LET rggb_indices == get_bayer_indices(bayer_pattern)
    IN  IF ~rggb_indices.ok THEN rggb_indices
        ELSE Ok([k \in 1..4 |-> StridedSub(bayer_array, rggb_indices.val[k])])

----------------------------------------------------------------------------
(* reconstruct_bayer                                                       *)

Uninit == "uninit"

\* np.empty(shape, dtype): every element is uninitialised memory.
np_empty(shape, dt) ==
    [dtype |-> dt, shape |-> shape, data |-> [idx \in Indices(shape) |-> Uninit]]

\* numpy's rule for assigning a 2-D value into a 2-D target: every axis of
\* the value has the target's length or length 1 (and is then repeated).
Broadcastable(src_shape, dst_shape) ==
    \A k \in 1..2 : src_shape[k] = dst_shape[k] \/ src_shape[k] = 1

Pos(seq, v) == CHOOSE k \in 1..Len(seq) : seq[k] = v

InSeq(seq, v) == \E k \in 1..Len(seq) : seq[k] = v

\* bayer_array[y0::2, x0::2] = sub_array
Scatter(bayer_array, idx, sub_array) ==
    LET x0 == idx[1]
        y0 == idx[2]
        H == bayer_array.shape[1]
        W == bayer_array.shape[2]
        rows == PySlice(y0, H, 2, H)
        cols == PySlice(x0, W, 2, W)
        src(i, n) == IF n = 1 THEN 0 ELSE i
        put(c) == IF InSeq(rows, c[1]) /\ InSeq(cols, c[2])
                  THEN sub_array.data[<<src(Pos(rows, c[1]) - 1, sub_array.shape[1]),
                                        src(Pos(cols, c[2]) - 1, sub_array.shape[2])>>]
                  ELSE bayer_array.data[c]
    IN  IF ~Broadcastable(sub_array.shape, <<Len(rows), Len(cols)>>)
        THEN Raise("ValueError")
        ELSE Ok([bayer_array EXCEPT !.data = [c \in DOMAIN bayer_array.data |-> put(c)]])

RECURSIVE ScatterAll(_, _, _, _)
\* for idx, sub_array in zip(rggb_indices, sub_arrays): the loop from its
\* k-th iteration on; the first failing assignment ends the call.
ScatterAll(bayer_array, rggb_indices, sub_arrays, k) ==
    IF k > Min(Len(rggb_indices), Len(sub_arrays)) THEN Ok(bayer_array)
    ELSE LET r == Scatter(bayer_array, rggb_indices[k], sub_arrays[k])
         IN  IF ~r.ok THEN r
             ELSE ScatterAll(r.val, rggb_indices, sub_arrays, k + 1)

reconstruct_bayer(sub_arrays, bayer_pattern) ==
    LET rggb_indices == get_bayer_indices(bayer_pattern)
    IN  IF ~rggb_indices.ok THEN rggb_indices
        ELSE LET height == sub_arrays[1].shape[1]
                 width == sub_arrays[1].shape[2]
                 bayer_array == np_empty(<<2 * height, 2 * width>>, sub_arrays[1].dtype)
             IN  ScatterAll(bayer_array, rggb_indices.val, sub_arrays, 1)

----------------------------------------------------------------------------
(* pad                                                                     *)

\* A Python int or a list/tuple, as isinstance tells them apart (the int is
\* held as the only entry of v).
PyInt(m) == [kind |-> "int", v |-> <<m>>]
PySeq(s) == [kind |-> "seq", v |-> s]
IsSeq(x) == x.kind = "seq"
IntOf(x) == x.v[1]

\* Source position of padded position i (relative to the first original
\* element) on an axis of length n under mode 'reflect'; an axis of length
\* 1 is extended by its only element.
ReflectIndex(i, n) ==
    IF n = 1 THEN 0
    ELSE LET period == 2 * (n - 1)
             m == i % period
         IN  IF m < n THEN m ELSE period - m

\* The padded array starts at the original's first element: the leading
\* margin is not skipped.
np_pad_nooffset(a, pad_width) ==
    LET nd == Len(a.shape)
        shape == [k \in 1..nd |-> a.shape[k] + pad_width[k][1] + pad_width[k][2]]
        f(idx) == a.data[[k \in 1..nd |-> ReflectIndex(idx[k], a.shape[k])]]
    IN  IF Len(pad_width) # nd THEN Raise("ValueError")
        ELSE IF \E k \in 1..nd : a.shape[k] = 0 /\ pad_width[k] # <<0, 0>>
        THEN Raise("ValueError")
        ELSE Ok(NDArray(a.dtype, shape, [i \in Indices(shape) |-> f(i)]))

\* np.pad(array, pad_width, 'reflect') with pad_width one (before, after)
\* pair per axis.
np_pad(a, pad_width) ==
    LET nd == Len(a.shape)
        shape == [k \in 1..nd |-> a.shape[k] + pad_width[k][1] + pad_width[k][2]]
        f(idx) == a.data[[k \in 1..nd |-> ReflectIndex(idx[k] - pad_width[k][1], a.shape[k])]]
    IN  IF Len(pad_width) # nd THEN Raise("ValueError")
        ELSE IF \E k \in 1..nd : a.shape[k] = 0 /\ pad_width[k] # <<0, 0>>
        THEN Raise("ValueError")
        ELSE Ok(NDArray(a.dtype, shape, [i \in Indices(shape) |-> f(i)]))

Repeat(x, n) == [k \in 1..n |-> x]

pad(a, p) ==
    LET nd == Len(a.shape)
    IN  IF IsSeq(p)
        THEN IF Len(p.v) = 2
             THEN np_pad(a, << <<p.v[1], p.v[1]>>, <<p.v[2], p.v[2]>> >>
                               \o Repeat(<<0, 0>>, nd - 2))
             ELSE IF Len(p.v) = 4
             THEN np_pad(a, << <<p.v[1], p.v[2]>>, <<p.v[3], p.v[4]>> >>
                               \o Repeat(<<0, 0>>, nd - 2))
             ELSE Raise("NotImplementedError")
        \* an int reaches np.pad unchanged: np.pad gives every axis (m, m)
        ELSE np_pad(a, Repeat(<<IntOf(p), IntOf(p)>>, nd))

----------------------------------------------------------------------------
(* shift_array: the generator's body                                       *)

\* wy, wx = window_size if isinstance(window_size, (list, tuple))
\*          else (window_size, window_size)
WindowY(ws) == IF IsSeq(ws) THEN ws.v[1] ELSE IntOf(ws)
WindowX(ws) == IF IsSeq(ws) THEN ws.v[2] ELSE IntOf(ws)

\* assert wy % 2 == 1 and wx % 2 == 1
OddWindow(wy, wx) == wy % 2 = 1 /\ wx % 2 = 1

\* The row and column starts exchanged.
Crop_swapped(p, y0, x0, height, width) ==
    View(p, PySlice(x0, x0 + height, 1, p.shape[1]),
            PySlice(y0, y0 + width, 1, p.shape[2]))

\* padded_array[y0:y0 + height, x0:x0 + width, ...]
Crop(p, y0, x0, height, width) ==
    View(p, PySlice(y0, y0 + height, 1, p.shape[1]),
            PySlice(x0, x0 + width, 1, p.shape[2]))

\* Everything the generator yields when run to exhaustion, in order.
ShiftedArrays(p, ws) ==
    LET wy == WindowY(ws)
        wx == WindowX(ws)
        height == p.shape[1] - wy + 1
        width == p.shape[2] - wx + 1
    IN  [k \in 1..(wy * wx) |-> Crop(p, (k - 1) \div wx, (k - 1) % wx, height, width)]

----------------------------------------------------------------------------
(* mean_filter                                                             *)

\* a + b on ndarrays of one shape and element type: the sum wraps.
AddArrays(a, b) ==
    [a EXCEPT !.data = [idx \in DOMAIN a.data |-> Wrap(a.dtype, a.data[idx] + b.data[idx])]]

RECURSIVE SumFrom(_, _, _)
\* sum(shifted_arrays): 0 + s1 + s2 + ..., left to right.  0 + s1 is s1
\* in s1's element type.
SumFrom(acc, seq, k) ==
    IF k > Len(seq) THEN acc
    ELSE SumFrom(AddArrays(acc, seq[k]), seq, k + 1)

PySum(seq) == SumFrom(seq[1], seq, 2)

\* (total / d).astype(dt)
DivideAndCast(total, d, dt) ==
    [total EXCEPT !.dtype = dt,
                  !.data = [idx \in DOMAIN total.data |-> Wrap(dt, TruncDiv(total.data[idx], d))]]

mean_filter(a, filter_size) ==
    IF filter_size % 2 # 1 THEN Raise("AssertionError")
    ELSE LET padded == pad(a, PyInt(filter_size \div 2))
         IN  IF ~padded.ok THEN padded
             ELSE LET shifted_arrays == ShiftedArrays(padded.val, PyInt(filter_size))
                  IN  Ok(DivideAndCast(PySum(shifted_arrays), filter_size * filter_size, a.dtype))

----------------------------------------------------------------------------
(* ycbcr_to_rgb                                                            *)

\* The matrix literal before .T: row c holds output channel c's weights.
matrix == << <<298, 0, 411>>, <<298, -101, -211>>, <<298, 519, 0>> >>
bias == <<-57344, 34739, -71117>>

\* The matrix used as written, without .T
Transpose_missing(m) == m

\* np.array(...).T
Transpose(m) == [k \in 1..3 |-> [c \in 1..3 |-> m[c][k]]]

\* np.right_shift(x, 8) on int32: an arithmetic shift.
RightShift8(x) == x \div 256

Clip(x, lo, hi) == IF x < lo THEN lo ELSE IF x > hi THEN hi ELSE x

\* One element of (ycbcr @ m + bias) >> 8, clipped and cast to uint8.
RgbElement(ycbcr, m, idx) ==
    LET px == SubSeq(idx, 1, Len(idx) - 1)
        c == idx[Len(idx)] + 1
        dot == Wrap("int32", ycbcr.data[px \o <<0>>] * m[1][c]
                           + ycbcr.data[px \o <<1>>] * m[2][c]
                           + ycbcr.data[px \o <<2>>] * m[3][c])
    IN  Wrap("uint8", Clip(RightShift8(Wrap("int32", dot + bias[c])), 0, 255))

ycbcr_to_rgb(ycbcr_array) ==
    IF ycbcr_array.dtype # "uint8" THEN Raise("AssertionError")
    ELSE IF ycbcr_array.shape[Len(ycbcr_array.shape)] # 3 THEN Raise("ValueError")
    ELSE LET m == Transpose(matrix)
             f(idx) == RgbElement(ycbcr_array, m, idx)
         IN  Ok(NDArray("uint8", ycbcr_array.shape, [i \in Indices(ycbcr_array.shape) |-> f(i)]))

----------------------------------------------------------------------------
(* Input sets.                                                             *)

ValidPatterns ==
    { <<"g", "b", "r", "g">>, <<"r", "g", "g", "b">>,
      <<"b", "g", "g", "r">>, <<"g", "r", "b", "g">> }

Patterns == ValidPatterns \cup { <<"R", "G", "G", "B">>, <<"x", "y", "z">> }

\* 8-bit sample values spread over 0..255.
Samples8 == {(k * 255) \div ColorLevels : k \in 0..ColorLevels}

\* Mosaics of at least one 2x2 cell, of even and of odd extent.
Mosaics ==
    {MkArray("uint8", <<h, w>>, b, 1) : h \in 2..MaxBayerDim, w \in 2..MaxBayerDim,
                                         b \in 0..MaxBase}

\* Lists of four channel sub-arrays: what split_bayer returns for the
\* mosaics above (of even and of odd extent).
SubArrayLists == {split_bayer(m, p).val : m \in Mosaics, p \in ValidPatterns}

Shapes(lo) ==
    {<<h, w>> : h \in lo..MaxDim, w \in lo..MaxDim}
    \cup {<<h, w, c>> : h \in lo..MaxDim, w \in lo..MaxDim, c \in 1..MaxChan}

PadArrays == {MkArray("uint8", sh, b, 1) : sh \in Shapes(0), b \in 0..MaxBase}

Margins == 0..MaxMargin

PadSpecs ==
    {PyInt(m) : m \in Margins}
    \cup {PySeq(<<>>)}
    \cup {PySeq(<<a>>) : a \in Margins}
    \cup {PySeq(<<a, b>>) : a \in Margins, b \in Margins}
    \cup {PySeq(<<a, b, c>>) : a \in Margins, b \in Margins, c \in Margins}
    \cup {PySeq(<<a, b, c, d>>) : a \in Margins, b \in Margins, c \in Margins, d \in Margins}

MeanArrays ==
    {MkArray(dt, sh, v, 0) : dt \in {"uint8", "int16"}, sh \in Shapes(1), v \in Samples8}
    \cup {MkArray(dt, sh, b, 1) : dt \in {"uint8", "int16"}, sh \in Shapes(1), b \in 0..MaxBase}

FilterSizes == 0..MaxFilter

Triad(dt, y, cb, cr) ==
    LET t == <<y, cb, cr>>
        f(idx) == t[idx[3] + 1]
    IN  NDArray(dt, <<1, 1, 3>>, [i \in Indices(<<1, 1, 3>>) |-> f(i)])

ColorSamples == Samples8 \cup {16, 128}

YCbCrArrays ==
    {Triad("uint8", y, cb, cr) : y \in ColorSamples, cb \in ColorSamples, cr \in ColorSamples}
    \cup {Triad("int16", 16, 128, 128), MkArray("uint8", <<1, 1, 2>>, 0, 1)}

----------------------------------------------------------------------------
(* The pure operations.  They keep no state between calls, so a behaviour  *)
(* is one call: the caller invokes an operation with inputs of its choice  *)
(* and receives the outcome.  args holds the call's arguments by name and  *)
(* ret its outcome: an array (arr) or a list of arrays (subs) when ok,     *)
(* otherwise the exception's name (err).                                   *)

\* Stands for "no array here" in an argument or result slot.
NoArray == [dtype |-> "none", shape |-> <<>>, data |-> <<>>]

NoValue == [kind |-> "none", v |-> <<>>]

NoArgs ==
    [array |-> NoArray, subs |-> <<>>, pattern |-> <<>>, pads |-> NoValue,
     filter_size |-> 0]

NoRet == [ok |-> TRUE, err |-> "none", arr |-> NoArray, subs |-> <<>>]

\* The outcome of a call that returns one array / a list of arrays.
RetArray(r) ==
    [ok |-> r.ok, err |-> r.err, arr |-> IF r.ok THEN r.val ELSE NoArray, subs |-> <<>>]

RetList(r) ==
    [ok |-> r.ok, err |-> r.err, arr |-> NoArray, subs |-> IF r.ok THEN r.val ELSE <<>>]

NoGen ==
    [status |-> "none", padded_array |-> NoArray, window_size |-> NoValue,
     wy |-> 0, wx |-> 0, height |-> 0, width |-> 0, y0 |-> 0, x0 |-> 0,
     n |-> 0, last |-> NoArray, ev |-> "none"]

Handles == {"g1", "g2"}

Init ==
    /\ fn = "none"
    /\ args = NoArgs
    /\ ret = NoRet
    /\ array = NoArray
    /\ pads = NoValue
    /\ padded_array = NoArray
    /\ window_size = NoValue
    /\ gens = [h \in Handles |-> NoGen]

SplitBayer ==
    \E m \in Mosaics, p \in Patterns :
        /\ fn = "none"
        /\ fn' = "split_bayer"
        /\ args' = [NoArgs EXCEPT !.array = m, !.pattern = p]
        /\ ret' = RetList(split_bayer(m, p))
        /\ UNCHANGED shiftVars

ReconstructBayer ==
    \E subs \in SubArrayLists, p \in Patterns :
        /\ fn = "none"
        /\ fn' = "reconstruct_bayer"
        /\ args' = [NoArgs EXCEPT !.subs = subs, !.pattern = p]
        /\ ret' = RetArray(reconstruct_bayer(subs, p))
        /\ UNCHANGED shiftVars

PadCall ==
    \E a \in PadArrays, p \in PadSpecs :
        /\ fn = "none"
        /\ fn' = "pad"
        /\ args' = [NoArgs EXCEPT !.array = a, !.pads = p]
        /\ ret' = RetArray(pad(a, p))
        /\ UNCHANGED shiftVars

MeanFilter ==
    \E a \in MeanArrays, fs \in FilterSizes :
        /\ fn = "none"
        /\ fn' = "mean_filter"
        /\ args' = [NoArgs EXCEPT !.array = a, !.filter_size = fs]
        /\ ret' = RetArray(mean_filter(a, fs))
        /\ UNCHANGED shiftVars

YcbcrToRgb ==
    \E a \in YCbCrArrays :
        /\ fn = "none"
        /\ fn' = "ycbcr_to_rgb"
        /\ args' = [NoArgs EXCEPT !.array = a]
        /\ ret' = RetArray(ycbcr_to_rgb(a))
        /\ UNCHANGED shiftVars

Next ==
    \/ SplitBayer
    \/ ReconstructBayer
    \/ PadCall
    \/ MeanFilter
    \/ YcbcrToRgb

Spec == Init /\ [][Next]_vars

----------------------------------------------------------------------------
(* The window shifter.  shift_array is a generator function: the call      *)
(* runs none of its body and hands back a generator object; each next()    *)
(* runs the body up to the following yield.  A caller holds the arguments  *)
(* (an array, padded by pad) and up to two generator objects.              *)

ShiftShapes ==
    {<<h, w>> : h \in 1..MaxDim, w \in 1..MaxDim} \cup {<<MaxDim, MaxDim, MaxChan>>}

ShiftArrays == {MkArray("uint8", sh, 0, 1) : sh \in ShiftShapes}

ShiftPads ==
    {PyInt(m) : m \in Margins} \cup {PySeq(<<a, b>>) : a \in Margins, b \in Margins}

WindowSizes ==
    {PyInt(w) : w \in 0..MaxWin}
    \cup {PySeq(<<a, b>>) : a \in 1..MaxWin, b \in 1..MaxWin}

InitShift ==
    /\ fn = "none"
    /\ args = NoArgs
    /\ ret = NoRet
    /\ array \in ShiftArrays
    /\ pads \in ShiftPads
    /\ pad(array, pads).ok
    /\ padded_array = pad(array, pads).val
    /\ window_size \in WindowSizes
    /\ gens = [h \in Handles |-> NoGen]

\* g = shift_array(padded_array, window_size): the frame is created with
\* its arguments bound, and nothing of the body has run.
NewGenerator(p, ws) ==
    [NoGen EXCEPT !.status = "created", !.padded_array = p, !.window_size = ws,
                  !.ev = "returned"]

\* The generator suspended at the yield of iteration (y0, x0).
YieldAt(g, y0, x0) ==
    [g EXCEPT !.status = "suspended", !.y0 = y0, !.x0 = x0, !.n = g.n + 1,
              !.last = Crop(g.padded_array, y0, x0, g.height, g.width),
              !.ev = "yield"]

Finish(g, e) == [g EXCEPT !.status = "done", !.ev = e]

\* next(g): the body from where it stands to the following yield, to the
\* failing assert, or to its end.
Resume(g) ==
    CASE g.status = "created" ->
             LET wy == WindowY(g.window_size)
                 wx == WindowX(g.window_size)
                 f == [g EXCEPT !.wy = wy, !.wx = wx,
                                !.height = g.padded_array.shape[1] - wy + 1,
                                !.width = g.padded_array.shape[2] - wx + 1]
             IN  IF ~OddWindow(wy, wx)
                 THEN Finish([g EXCEPT !.wy = wy, !.wx = wx], "AssertionError")
                 ELSE IF wy > 0 /\ wx > 0 THEN YieldAt(f, 0, 0)
                 ELSE Finish(f, "StopIteration")
      [] g.status = "suspended" ->
             IF g.x0 + 1 < g.wx THEN YieldAt(g, g.y0, g.x0 + 1)
             ELSE IF g.y0 + 1 < g.wy THEN YieldAt(g, g.y0 + 1, 0)
             ELSE Finish(g, "StopIteration")
      [] OTHER -> Finish(g, "StopIteration")

ShiftArray(h) ==
    /\ gens' = [gens EXCEPT ![h] = NewGenerator(padded_array, window_size)]
    /\ UNCHANGED <<pureVars, array, pads, padded_array, window_size>>

GenNext(h) ==
    /\ gens[h].status # "none"
    /\ gens' = [gens EXCEPT ![h] = Resume(gens[h])]
    /\ UNCHANGED <<pureVars, array, pads, padded_array, window_size>>

NextShift ==
    \/ \E h \in Handles : ShiftArray(h)
    \/ \E h \in Handles : GenNext(h)

SpecShift == InitShift /\ [][NextShift]_vars

----------------------------------------------------------------------------
(* Properties of the Bayer splitter / reconstructor (under Spec).          *)

EvenMosaic(m) == m.shape[1] % 2 = 0 /\ m.shape[2] % 2 = 0

\* C1: for every valid pattern p and every mosaic M of even height and
\* width, reconstruct_bayer(split_bayer(M, p), p) returns an array of M's
\* shape that equals M in every cell.
C1_RoundTrip ==
    fn = "reconstruct_bayer" =>
        \A m \in Mosaics, p \in Patterns :
            (EvenMosaic(m) /\ split_bayer(m, p).ok /\ args.subs = split_bayer(m, p).val /\ args.pattern = p)
                => (ret.ok /\ ret.arr.shape = m.shape /\ ret.arr = m)

C1_Witness ==
    /\ fn = "reconstruct_bayer"
    /\ \E m \in Mosaics :
           /\ m.shape = <<4, 4>>
           /\ args.pattern = <<"g", "b", "r", "g">>
           /\ args.subs = split_bayer(m, args.pattern).val
           /\ ret.ok
           /\ ret.arr = m

SameShapes(subs) == \A k \in 1..4 : subs[k].shape = subs[1].shape

\* C8: reconstruct_bayer fails with a shape-mismatch error whenever the
\* four sub-arrays do not all have the identical shape, also when a later
\* one could be broadcast to the first one's shape.
C8_MismatchFails ==
    (fn = "reconstruct_bayer" /\ Lower(args.pattern) \in ValidPatterns /\ ~SameShapes(args.subs))
        => (~ret.ok /\ ret.err = "ValueError")

ChannelExtent(n, o) ==
    IF n % 2 = 0 THEN n \div 2
    ELSE IF o = 0 THEN n \div 2 + 1 ELSE n \div 2

----------------------------------------------------------------------------
(* Properties of pad and mean_filter (under Spec).                         *)

\* C7: for an int m, a 2-element (v, h) or a 4-element (top, bottom, left,
\* right), pad extends only the two leading axes by those amounts and
\* leaves every trailing axis at its length; a sequence of any other
\* length fails with NotImplementedError.
C7_PadSpatialOnly ==
    fn = "pad" =>
        LET a == args.array
            p == args.pads
            grown(t, b, l, r) ==
                ret.ok => ret.arr.shape = <<a.shape[1] + t + b, a.shape[2] + l + r>>
                                              \o Trailing(a.shape)
        IN  CASE ~IsSeq(p) -> grown(IntOf(p), IntOf(p), IntOf(p), IntOf(p))
              [] IsSeq(p) /\ Len(p.v) = 2 -> grown(p.v[1], p.v[1], p.v[2], p.v[2])
              [] IsSeq(p) /\ Len(p.v) = 4 -> grown(p.v[1], p.v[2], p.v[3], p.v[4])
              [] OTHER -> (~ret.ok /\ ret.err = "NotImplementedError")

\* C3: for every odd filter_size and every input of shape (H, W) or
\* (H, W, C, ...), the array mean_filter returns has the input's shape.
C3_MeanFilterShape ==
    (fn = "mean_filter" /\ args.filter_size % 2 = 1) =>
        (ret.ok /\ ret.arr.shape = args.array.shape)

IsConstant(a, v) == \A idx \in DOMAIN a.data : a.data[idx] = v

\* C2: for every odd filter_size and every value v of the element type,
\* mean_filter of an array whose every element is v returns an array whose
\* every element is v.
C2_MeanOfConstant ==
    (fn = "mean_filter" /\ args.filter_size % 2 = 1) =>
        \A v \in Samples8 :
            IsConstant(args.array, v) => (ret.ok /\ IsConstant(ret.arr, v))

----------------------------------------------------------------------------
(* Properties of ycbcr_to_rgb (under Spec).                                *)

\* floor(s / 256), stated by its defining inequalities.
IsFloor256(q, s) == 256 * q <= s /\ s < 256 * q + 256

Clamp255(q) == IF q < 0 THEN 0 ELSE IF q > 255 THEN 255 ELSE q

\* C4: for every 8-bit triad (Y, Cb, Cr), output channel c is
\* min(255, max(0, floor((Y*M[c][0] + Cb*M[c][1] + Cr*M[c][2] + bias[c]) / 256)))
\* with M = [[298,0,411],[298,-101,-211],[298,519,0]] and
\* bias = [-57344, 34739, -71117]; the result lies in 0..255,
\* (255,128,128) maps to (255,255,255) and (16,128,128) to (0,0,0).
C4_FixedPoint ==
    (fn = "ycbcr_to_rgb" /\ args.array.dtype = "uint8" /\ args.array.shape = <<1, 1, 3>>) =>
        LET in(k) == args.array.data[<<0, 0, k>>]
            out(c) == ret.arr.data[<<0, 0, c>>]
            M == << <<298, 0, 411>>, <<298, -101, -211>>, <<298, 519, 0>> >>
            B == <<-57344, 34739, -71117>>
            s(c) == in(0) * M[c + 1][1] + in(1) * M[c + 1][2] + in(2) * M[c + 1][3] + B[c + 1]
        IN  /\ ret.ok
            /\ ret.arr.dtype = "uint8"
            /\ \A c \in 0..2 :
                   /\ out(c) \in 0..255
                   /\ \E q \in -1024..1024 : IsFloor256(q, s(c)) /\ out(c) = Clamp255(q)
            /\ (in(0) = 255 /\ in(1) = 128 /\ in(2) = 128)
                   => (out(0) = 255 /\ out(1) = 255 /\ out(2) = 255)
            /\ (in(0) = 16 /\ in(1) = 128 /\ in(2) = 128)
                   => (out(0) = 0 /\ out(1) = 0 /\ out(2) = 0)

\* (16,128,128): the green sum is -429, whose floor is -2.
C4_Witness ==
    /\ fn = "ycbcr_to_rgb"
    /\ args.array = Triad("uint8", 16, 128, 128)
    /\ ret.ok
    /\ ret.arr = Triad("uint8", 0, 0, 0)

----------------------------------------------------------------------------
(* Properties of the window shifter (under SpecShift).                     *)

\* The crop of p that starts at (dy, dx) and has extent (h, w), cell by cell.
IsCropOf(c, p, dy, dx, h, w) ==
    /\ c.shape = <<h, w>> \o Trailing(p.shape)
    /\ \A idx \in DOMAIN c.data :
           c.data[idx] = p.data[<<dy + idx[1], dx + idx[2]>> \o Trailing(idx)]

\* C6: for odd (wy, wx) the sequence has exactly wy*wx elements and then
\* ends; its k-th element, k = dy*wx + dx, is the crop of the padded array
\* starting at (dy, dx) with extent (padded height - wy + 1, padded width -
\* wx + 1); an exhausted sequence yields nothing more, and another call
\* starts again at (0, 0) whatever happened to an earlier sequence.
C6_ShiftSequence ==
    \A h \in Handles :
        LET g == gens[h]
            wy == WindowY(window_size)
            wx == WindowX(window_size)
            eh == padded_array.shape[1] - wy + 1
            ew == padded_array.shape[2] - wx + 1
            k == g.n - 1
        IN  (g.status # "none" /\ wy % 2 = 1 /\ wx % 2 = 1) =>
                /\ g.n <= wy * wx
                /\ g.ev \in {"returned", "yield", "StopIteration"}
                /\ g.ev = "returned" => g.n = 0
                /\ (g.ev = "yield" /\ eh >= 0 /\ ew >= 0) =>
                       IsCropOf(g.last, padded_array, k \div wx, k % wx, eh, ew)
                /\ g.ev = "StopIteration" => g.n = wy * wx

\* One sequence is exhausted after 9 elements while a later one, begun on
\* the same arguments, stands at its second element.
C6_Witness ==
    /\ window_size = PyInt(3)
    /\ array.shape = <<2, 2>>
    /\ pads = PyInt(1)
    /\ gens["g1"].ev = "StopIteration"
    /\ gens["g1"].n = 9
    /\ gens["g2"].ev = "yield"
    /\ gens["g2"].n = 2
    /\ IsCropOf(gens["g2"].last, padded_array, 0, 1, 2, 2)

\* pads extend exactly the two leading axes of a by r on each side.
SpatialMargin(a, p, padded, r) ==
    /\ p \in {PyInt(r), PySeq(<<r, r>>)}
    /\ padded.shape = <<a.shape[1] + 2 * r, a.shape[2] + 2 * r>> \o Trailing(a.shape)

\* C5: when P is A padded by r on each spatial side and window_size is
\* 2r+1, the element of the sequence at linear index r*window_size + r is
\* A itself: same shape, same value in every cell.
C5_CenterIdentity ==
    \A h \in Handles, r \in Margins :
        (/\ SpatialMargin(array, pads, padded_array, r)
         /\ window_size \in {PyInt(2 * r + 1), PySeq(<<2 * r + 1, 2 * r + 1>>)}
         /\ gens[h].ev = "yield"
         /\ gens[h].n = r * (2 * r + 1) + r + 1)
            => (gens[h].last.shape = array.shape /\ gens[h].last = array)

C5_Witness ==
    /\ array.shape = <<MaxDim, MaxDim, MaxChan>>
    /\ pads = PySeq(<<1, 1>>)
    /\ window_size = PyInt(3)
    /\ gens["g1"].ev = "yield"
    /\ gens["g1"].n = 5
    /\ gens["g1"].last = array

\* C10: for a window size with an even dimension the failure is raised by
\* the call to shift_array itself: the caller never receives a sequence
\* whose first consumption would fail.
C10_EagerFailure ==
    \A h \in Handles :
        gens[h].status = "created" =>
            OddWindow(WindowY(gens[h].window_size), WindowX(gens[h].window_size))

====
